---------------------------- MODULE Spec2Model ----------------------------
(***************************************************************************)
(* Model of src/app.py: the TMS dashboard script.  One run of the script   *)
(* takes the uploaded workbook, calls load_tms_data on it and renders the  *)
(* three tabs from the mapping it returns.                                 *)
(*                                                                         *)
(* Representation.  A spreadsheet cell is a record [k, n, s]: k is the     *)
(* kind ("null" for a blank cell / NaN, "num" for a number, "text" for a   *)
(* string, "date" for a timestamp), n the number (or the day count of a    *)
(* date, in days since 1899-12-30) and s the string.  Floats are modelled  *)
(* by integers.  Money is held in thousandths so that round(2) is visible. *)
(* A sheet is [ncols, rows]; a DataFrame is [columns, index, data], where  *)
(* index keeps the labels pandas assigns to the rows when it reads them.   *)
(***************************************************************************)
EXTENDS Integers, Sequences, FiniteSets, TLC

VARIABLES
  uploaded_file,  \* the file of the sidebar's uploader (line 102)
  tms_data,       \* what load_tms_data returned (line 223-225)
  st_error,       \* the exception load_tms_data caught and showed (line 217)
  sidebar,        \* the status the sidebar shows (lines 227-232)
  view,           \* the figures the tabs computed
  pc              \* where the run of the script stands

vars == <<uploaded_file, tms_data, st_error, sidebar, view, pc>>

---------------------------------------------------------------------------
(* Bounds of the model *)

MaxNum == 9
MaxVolRows == 2
MaxOtpRows == 2
MaxOtpCols == 6
MaxCostRows == 2
MaxCostCols == 19
MaxDateRows == 2

---------------------------------------------------------------------------
(* Cells *)

Null == [k |-> "null", n |-> 0, s |-> ""]
Num(n) == [k |-> "num", n |-> n, s |-> ""]
Text(s) == [k |-> "text", n |-> 0, s |-> s]
Date(d) == [k |-> "date", n |-> d, s |-> ""]

\* pd.notna(x)
notna(c) == c.k # "null"

\* Sequence helpers
RECURSIVE SeqSum(_)
SeqSum(q) == IF q = << >> THEN 0 ELSE Head(q) + SeqSum(Tail(q))

Range(q) == {q[i] : i \in 1..Len(q)}

---------------------------------------------------------------------------
(* Python string operations on the strings that occur in the model *)

Digit(d) ==
  CASE d = 0 -> "0" [] d = 1 -> "1" [] d = 2 -> "2" [] d = 3 -> "3"
    [] d = 4 -> "4" [] d = 5 -> "5" [] d = 6 -> "6" [] d = 7 -> "7"
    [] d = 8 -> "8" [] d = 9 -> "9"

\* str(n) of a Python int
RECURSIVE DecStr(_)
DecStr(n) ==
  IF n < 0 THEN "-" \o DecStr(-n)
  ELSE IF n < 10 THEN Digit(n)
  ELSE DecStr(n \div 10) \o Digit(n % 10)

\* str(x) of a non-null cell
Str(c) == IF c.k = "num" THEN DecStr(c.n) ELSE c.s

\* s.strip(): of the model's strings only " NL" and " " carry whitespace
strip(s) == IF s = " NL" THEN "NL" ELSE IF s = " " THEN "" ELSE s

\* s.isalpha(): the model's strings made of letters only
AlphaStrings == {"CTX", "NL", "DE", "Total", "SVC", "x"}
isalpha(s) == s \in AlphaStrings

\* float(s): [ok, v]; ok = FALSE stands for the ValueError
NumRange == (0 - MaxNum)..MaxNum
float_str(s) ==
  IF \E n \in NumRange : DecStr(n) = s
  THEN [ok |-> TRUE, v |-> CHOOSE n \in NumRange : DecStr(n) = s]
  ELSE [ok |-> FALSE, v |-> 0]

\* The same, were a text that spells no number read as 1 instead of raising
float_cell_lenient(c) ==
  IF c.k = "num" THEN [ok |-> TRUE, v |-> c.n]
  ELSE IF c.k = "text" THEN (IF float_str(c.s).ok THEN float_str(c.s) ELSE [ok |-> TRUE, v |-> 1])
  ELSE [ok |-> FALSE, v |-> 0]

\* float(x) of a non-null cell (a timestamp raises TypeError)
float_cell(c) ==
  IF c.k = "num" THEN [ok |-> TRUE, v |-> c.n]
  ELSE IF c.k = "text" THEN float_str(c.s)
  ELSE [ok |-> FALSE, v |-> 0]

---------------------------------------------------------------------------
(* Dictionaries: functions from a set of string keys *)

EmptyDict == [k \in {} |-> 0]
DictSet(d, key, val) == [k \in (DOMAIN d) \cup {key} |-> IF k = key THEN val ELSE d[k]]

---------------------------------------------------------------------------
(* load_tms_data, section 3: the "Volume per SVC" sheet *)

ExcludedLabels == {"Count of PIECES", "SVC", "Total", ""}

\* The same without the test volume > 0
ServiceStepNoSign(sv, row) ==
  IF Len(row) >= 2 /\ notna(row[1]) /\ notna(row[2])
  THEN LET service == strip(Str(row[1]))
           volume == float_cell(row[2])
       IN IF volume.ok /\ service \notin ExcludedLabels
          THEN DictSet(sv, service, volume.v)
          ELSE sv
  ELSE sv

\* One iteration of the first loop (lines 163-170) on dictionary sv
ServiceStep(sv, row) ==
  IF Len(row) >= 2 /\ notna(row[1]) /\ notna(row[2])
  THEN LET service == strip(Str(row[1]))
           volume == float_cell(row[2])
       IN IF volume.ok /\ service \notin ExcludedLabels /\ volume.v > 0
          THEN DictSet(sv, service, volume.v)
          ELSE sv
  ELSE sv

\* The first loop over volume_df.iterrows() (lines 162-170)
RECURSIVE ServiceLoop(_, _)
ServiceLoop(sv, rows) ==
  IF rows = << >> THEN sv
  ELSE ServiceLoop(ServiceStep(sv, Head(rows)), Tail(rows))

\* row_data = [str(x) if pd.notna(x) else '' for x in row]  (line 175)
row_data_of(row) == [i \in 1..Len(row) |-> IF notna(row[i]) THEN Str(row[i]) ELSE ""]

\* The contribution of one cell to total, were the sign not tested
CellAmountAny(val) ==
  LET f == float_str(val)
  IN IF val # "" /\ f.ok THEN f.v ELSE 0

\* The contribution of one cell to total (lines 182-186)
CellAmount(val) ==
  LET f == float_str(val)
  IN IF val # "" /\ f.ok /\ f.v > 0 THEN f.v ELSE 0

\* total of a row (lines 180-186)
RowTotal(row_data) ==
  SeqSum([i \in 1..(Len(row_data) - 1) |-> CellAmount(row_data[i + 1])])

\* The test of line 177
IsCountryRow(row_data) ==
  Len(row_data) > 0 /\ Len(row_data[1]) = 2 /\ isalpha(row_data[1])

\* One iteration of the second loop (lines 175-188) on dictionary cv
CountryStep(cv, row) ==
  LET row_data == row_data_of(row)
  IN IF IsCountryRow(row_data)
     THEN LET country == row_data[1]
              total == RowTotal(row_data)
          IN IF total > 0 THEN DictSet(cv, country, total) ELSE cv
     ELSE cv

\* The second loop over volume_df.iterrows() (lines 174-188)
RECURSIVE CountryLoop(_, _)
CountryLoop(cv, rows) ==
  IF rows = << >> THEN cv
  ELSE CountryLoop(CountryStep(cv, Head(rows)), Tail(rows))

---------------------------------------------------------------------------
(* Sheets and DataFrames *)

\* Column labels pandas takes from a sheet's header row: distinct, positional
HeaderName(k) == "col" \o DecStr(k)

\* The dtype pandas gives a column it read: a column of numbers and blanks is
\* float64/int64, a column of timestamps and blanks is datetime64, a column
\* without any row and every mixed or text column is object.
Dtype(cells) ==
  IF cells = << >> THEN "object"
  ELSE IF \A i \in 1..Len(cells) : cells[i].k \in {"num", "null"} THEN "float64"
  ELSE IF \A i \in 1..Len(cells) : cells[i].k \in {"date", "null"} THEN "datetime64"
  ELSE "object"

ColumnCells(data, j) == [i \in 1..Len(data) |-> data[i][j]]

\* excel_sheets[name].copy(): the sheet as a DataFrame
DataFrameOf(sheet) ==
  [columns |-> [j \in 1..sheet.ncols |-> HeaderName(j)],
   dtypes |-> [j \in 1..sheet.ncols |-> Dtype(ColumnCells(sheet.rows, j))],
   index |-> [i \in 1..Len(sheet.rows) |-> i - 1],
   data |-> sheet.rows]

EmptyFrame == [columns |-> << >>, dtypes |-> << >>, index |-> << >>, data |-> << >>]

\* df.empty
empty(df) == Len(df.index) = 0 \/ Len(df.columns) = 0

Min(a, b) == IF a < b THEN a ELSE b

\* df.iloc[:, :n]
iloc_cols(df, n) ==
  LET m == Min(n, Len(df.columns))
  IN [columns |-> SubSeq(df.columns, 1, m),
      dtypes |-> SubSeq(df.dtypes, 1, m),
      index |-> df.index,
      data |-> [i \in 1..Len(df.data) |-> SubSeq(df.data[i], 1, m)]]

\* Position of a column label (0 when absent)
ColPos(df, name) ==
  IF \E j \in 1..Len(df.columns) : df.columns[j] = name
  THEN CHOOSE j \in 1..Len(df.columns) : df.columns[j] = name
  ELSE 0

\* The positions of the rows, in order, whose cell in column j is not null
RECURSIVE KeptPositions(_, _, _)
KeptPositions(data, j, i) ==
  IF i > Len(data) THEN << >>
  ELSE IF notna(data[i][j]) THEN <<i>> \o KeptPositions(data, j, i + 1)
  ELSE KeptPositions(data, j, i + 1)

\* The positions of the rows, in order, without any null cell
RECURSIVE CompletePositions(_, _)
CompletePositions(data, i) ==
  IF i > Len(data) THEN << >>
  ELSE IF \A j \in 1..Len(data[i]) : notna(data[i][j])
       THEN <<i>> \o CompletePositions(data, i + 1)
       ELSE CompletePositions(data, i + 1)

TakeRows(df, pos) ==
  [columns |-> df.columns,
   dtypes |-> df.dtypes,
   index |-> [i \in 1..Len(pos) |-> df.index[pos[i]]],
   data |-> [i \in 1..Len(pos) |-> df.data[pos[i]]]]

\* df.dropna(): rows without any null
dropna_any(df) == TakeRows(df, CompletePositions(df.data, 1))

\* df.dropna(subset=[name])
dropna_subset(df, name) == TakeRows(df, KeptPositions(df.data, ColPos(df, name), 1))

---------------------------------------------------------------------------
(* safe_date_conversion (lines 109-117) *)

\* A timestamp is held as pandas holds it, counted from 1970-01-01; Date(d)
\* is day d of that count.

\* Timestamp(y, m, d) as days from 1970-01-01 (proleptic Gregorian calendar)
DaysFromCivil(y, m, d) ==
  LET yy == IF m <= 2 THEN y - 1 ELSE y
      era == yy \div 400
      yoe == yy - era * 400
      mp == IF m > 2 THEN m - 3 ELSE m + 9
      doy == (153 * mp + 2) \div 5 + d - 1
      doe == yoe * 365 + yoe \div 4 - yoe \div 100 + doy
  IN era * 146097 + doe - 719468

\* The year, month and day of the timestamp of day z
CivilFromDays(z) ==
  LET zz == z + 719468
      era == zz \div 146097
      doe == zz - era * 146097
      yoe == (doe - doe \div 1460 + doe \div 36524 - doe \div 146096) \div 365
      doy == doe - (365 * yoe + yoe \div 4 - yoe \div 100)
      mp == (5 * doy + 2) \div 153
      m == IF mp < 10 THEN mp + 3 ELSE mp - 9
  IN [y |-> yoe + era * 400 + (IF m <= 2 THEN 1 ELSE 0),
      m |-> m,
      d |-> doy - (153 * mp + 2) \div 5 + 1]

\* 1970-01-01 counted in days from 1899-12-30: with origin='1899-12-30' and
\* unit='D' pandas takes this many days off a serial; an integer in an object
\* column is read by pd.to_datetime as nanoseconds after 1970-01-01
UnixEpochDay == 0 - DaysFromCivil(1899, 12, 30)

\* Calendar strings of the model
DateStrings == {"2024-01-01", "2024-01-02"}
ParseDate(s) ==
  IF s = "2024-01-01" THEN DaysFromCivil(2024, 1, 1) ELSE DaysFromCivil(2024, 1, 2)

\* The same with origin='1900-01-01'
SerialToDate1900(c) ==
  IF c.k = "num" THEN Date(c.n + DaysFromCivil(1900, 1, 1)) ELSE Null

\* pd.to_datetime(x, origin='1899-12-30', unit='D', errors='coerce') of one value
SerialToDate(c) == IF c.k = "num" THEN Date(c.n - UnixEpochDay) ELSE Null

\* The same, were a timestamp taken for a serial and converted again
ParseToDateAsSerial(c) ==
  IF c.k = "date" THEN Date(c.n - UnixEpochDay)
  ELSE IF c.k = "text" /\ c.s \in DateStrings THEN Date(ParseDate(c.s))
  ELSE IF c.k = "num" THEN Date(0)
  ELSE Null

\* The same with errors='ignore': what cannot be parsed is left as it is
ParseToDateIgnore(c) ==
  IF c.k = "date" THEN c
  ELSE IF c.k = "text" /\ c.s \in DateStrings THEN Date(ParseDate(c.s))
  ELSE IF c.k = "num" THEN Date(0)
  ELSE c

\* pd.to_datetime(x, errors='coerce') of one value of an object or datetime column
ParseToDate(c) ==
  IF c.k = "date" THEN c
  ELSE IF c.k = "text" /\ c.s \in DateStrings THEN Date(ParseDate(c.s))
  ELSE IF c.k = "num" THEN Date(0)
  ELSE Null

safe_date_conversion(cells, dtype) ==
  IF dtype = "float64"
  THEN [i \in 1..Len(cells) |-> SerialToDate(cells[i])]
  ELSE [i \in 1..Len(cells) |-> ParseToDate(cells[i])]

\* df[name] = safe_date_conversion(df[name])
ConvertColumn(df, name) ==
  LET j == ColPos(df, name)
      conv == safe_date_conversion(ColumnCells(df.data, j), df.dtypes[j])
  IN IF j = 0 THEN df
     ELSE [df EXCEPT !.dtypes[j] = "datetime64",
                     !.data = [i \in 1..Len(df.data) |-> [df.data[i] EXCEPT ![j] = conv[i]]]]

---------------------------------------------------------------------------
(* load_tms_data (lines 121-220) *)

\* The sheet names the loader looks up (lines 129, 134, 151, 194, 199)
RawSheet == "AMS RAW DATA"
OtpSheet == "OTP POD"
VolumeSheet == "Volume per SVC"
LaneSheet == "Lane usage "
CostSheet == "cost sales"
SheetNames == {RawSheet, OtpSheet, VolumeSheet, LaneSheet, CostSheet}

\* Line 139
otp_cols == <<"TMS_Order", "QDT", "POD_DateTime", "Time_Diff", "Status">>

\* Lines 201-204
expected_cols ==
  <<"Order_Date", "Account", "Account_Name", "Office", "Order_Num",
    "PU_Cost", "Ship_Cost", "Man_Cost", "Del_Cost", "Total_Cost",
    "Net_Revenue", "Currency", "Diff", "Gross_Percent", "Invoice_Num",
    "Total_Amount", "Status", "PU_Country">>

NoError == [raised |-> FALSE, at |-> "", axis |-> 0, names |-> 0]

\* pandas' ValueError "Length mismatch: Expected axis has <axis> elements, new
\* values have <names> elements", raised by df.columns = [...]
LengthMismatch(at, axis, names) == [raised |-> TRUE, at |-> at, axis |-> axis, names |-> names]

\* The same without the slice: every column of the sheet is kept
otp_sliced_all(sheet) == DataFrameOf(sheet)

\* Lines 135-137: the frame whose columns line 139 renames
otp_sliced(sheet) == iloc_cols(DataFrameOf(sheet), Len(otp_cols))

\* The same with dropna() over every column
otp_cleaned_any(df) == ConvertColumn(ConvertColumn(dropna_any(df), "QDT"), "POD_DateTime")

\* Lines 140-146, on the renamed frame
otp_cleaned(df) ==
  ConvertColumn(ConvertColumn(dropna_subset(df, "TMS_Order"), "QDT"), "POD_DateTime")

\* Lines 135-148: [err, df]
ProcessOtp(sheet) ==
  LET sliced == otp_sliced(sheet)
  IN IF Len(sliced.columns) # Len(otp_cols)
     THEN [err |-> LengthMismatch("otp", Len(sliced.columns), Len(otp_cols)), df |-> EmptyFrame]
     ELSE [err |-> NoError, df |-> otp_cleaned([sliced EXCEPT !.columns = otp_cols])]

\* The slice taken one name too far to the right
new_cols_shifted(n) == SubSeq(expected_cols, 2, Min(n + 1, Len(expected_cols)))

\* Line 206: expected_cols[:len(cost_df.columns)]
new_cols_of(n) == SubSeq(expected_cols, 1, Min(n, Len(expected_cols)))

\* Lines 200-212: [err, df]
ProcessCost(sheet) ==
  LET cost_df == DataFrameOf(sheet)
      new_cols == new_cols_of(Len(cost_df.columns))
  IN IF Len(new_cols) # Len(cost_df.columns)
     THEN [err |-> LengthMismatch("cost_sales", Len(cost_df.columns), Len(new_cols)),
           df |-> EmptyFrame]
     ELSE [err |-> NoError,
           df |-> ConvertColumn([cost_df EXCEPT !.columns = new_cols], "Order_Date")]

\* The same, were volume_processed stored as well
VolumeEntriesExtra(sheet) ==
  [k \in {"volume_raw", "volume_processed", "service_volumes", "country_volumes"} |->
     IF k \in {"volume_raw", "volume_processed"} THEN DataFrameOf(sheet)
     ELSE IF k = "service_volumes" THEN ServiceLoop(EmptyDict, sheet.rows)
     ELSE CountryLoop(EmptyDict, sheet.rows)]

\* Lines 151-191: the entries the volume sheet adds to data
VolumeEntries(sheet) ==
  [k \in {"volume_raw", "service_volumes", "country_volumes"} |->
     IF k = "volume_raw" THEN DataFrameOf(sheet)
     ELSE IF k = "service_volumes" THEN ServiceLoop(EmptyDict, sheet.rows)
     ELSE CountryLoop(EmptyDict, sheet.rows)]

NoEntries == [k \in {} |-> EmptyFrame]
Entry(key, val) == [k \in {key} |-> val]

None == [some |-> FALSE, data |-> NoEntries]
Some(d) == [some |-> TRUE, data |-> d]

\* The same, were the mapping built so far returned along with the error
LoadSheetsPartial(excel_sheets) ==
  LET has(name) == name \in DOMAIN excel_sheets
      otp == IF has(OtpSheet) THEN ProcessOtp(excel_sheets[OtpSheet])
             ELSE [err |-> NoError, df |-> EmptyFrame]
      cost == IF has(CostSheet) THEN ProcessCost(excel_sheets[CostSheet])
              ELSE [err |-> NoError, df |-> EmptyFrame]
      data ==
        IF has(RawSheet) THEN Entry("raw_data", DataFrameOf(excel_sheets[RawSheet]))
        ELSE NoEntries
  IN IF otp.err.raised THEN [value |-> Some(data), err |-> otp.err]
     ELSE IF cost.err.raised THEN [value |-> Some(data), err |-> cost.err]
     ELSE [value |-> Some(data), err |-> NoError]

\* Lines 126-214 on the mapping read_excel returned: [value, err]
LoadSheets(excel_sheets) ==
  LET has(name) == name \in DOMAIN excel_sheets
      otp == IF has(OtpSheet) THEN ProcessOtp(excel_sheets[OtpSheet])
             ELSE [err |-> NoError, df |-> EmptyFrame]
      cost == IF has(CostSheet) THEN ProcessCost(excel_sheets[CostSheet])
              ELSE [err |-> NoError, df |-> EmptyFrame]
      data ==
        (IF has(RawSheet) THEN Entry("raw_data", DataFrameOf(excel_sheets[RawSheet]))
         ELSE NoEntries)
        @@ (IF has(OtpSheet) THEN Entry("otp", otp.df) ELSE NoEntries)
        @@ (IF has(VolumeSheet) THEN VolumeEntries(excel_sheets[VolumeSheet]) ELSE NoEntries)
        @@ (IF has(LaneSheet) THEN Entry("lanes", DataFrameOf(excel_sheets[LaneSheet]))
            ELSE NoEntries)
        @@ (IF has(CostSheet) THEN Entry("cost_sales", cost.df) ELSE NoEntries)
  IN IF otp.err.raised THEN [value |-> None, err |-> otp.err]
     ELSE IF cost.err.raised THEN [value |-> None, err |-> cost.err]
     ELSE [value |-> Some(data), err |-> NoError]

\* The file is [some, parseable, sheets]; some = FALSE is Python's None.
NoFile == [some |-> FALSE, parseable |-> FALSE, sheets |-> NoEntries]
File(parseable, sheets) == [some |-> TRUE, parseable |-> parseable, sheets |-> sheets]

\* pd.read_excel raises on a file that is no spreadsheet (line 125)
ReadError == [raised |-> TRUE, at |-> "read_excel", axis |-> 0, names |-> 0]

load_tms_data(file) ==
  IF ~file.some THEN [value |-> None, err |-> NoError]
  ELSE IF ~file.parseable THEN [value |-> None, err |-> ReadError]
  ELSE LoadSheets(file.sheets)

\* Python's truth value of tms_data (line 226): None and {} are false
Truthy(t) == t.some /\ DOMAIN t.data # {}

---------------------------------------------------------------------------
(* Series reductions of pandas *)

NumCells(cells) == {i \in 1..Len(cells) : cells[i].k = "num"}

\* series.sum(): nulls are skipped
RECURSIVE sum_skipna(_)
sum_skipna(cells) ==
  IF cells = << >> THEN 0
  ELSE (IF Head(cells).k = "num" THEN Head(cells).n ELSE 0) + sum_skipna(Tail(cells))

\* x rounded to the nearest multiple of unit, ties to the even multiple (numpy)
RoundTo(x, unit) ==
  LET q == x \div unit
      r == x % unit
  IN IF 2 * r < unit THEN q * unit
     ELSE IF 2 * r > unit THEN (q + 1) * unit
     ELSE IF q % 2 = 0 THEN q * unit ELSE (q + 1) * unit

\* Amounts are held in thousandths: round(2) rounds to a multiple of 10
Cent == 10
round2(x) == RoundTo(x, Cent)

\* (num / den).round(2), den > 0
RoundDiv2(num, den) ==
  LET q == num \div (Cent * den)
      r == num % (Cent * den)
  IN IF 2 * r < Cent * den THEN q * Cent
     ELSE IF 2 * r > Cent * den THEN (q + 1) * Cent
     ELSE IF q % 2 = 0 THEN q * Cent ELSE (q + 1) * Cent

\* The same, were a null counted as a zero
mean_nullzero(cells) ==
  IF cells = << >> THEN [nan |-> TRUE, v |-> 0]
  ELSE [nan |-> FALSE, v |-> RoundDiv2(sum_skipna(cells), Len(cells))]

\* series.mean().round(2): [nan, v]; nan when no value is left after skipping nulls
mean_skipna(cells) ==
  IF NumCells(cells) = {} THEN [nan |-> TRUE, v |-> 0]
  ELSE [nan |-> FALSE, v |-> RoundDiv2(sum_skipna(cells), Cardinality(NumCells(cells)))]

\* The rows of df whose cell in column j is the string key
RECURSIVE GroupPositions(_, _, _, _)
GroupPositions(data, j, key, i) ==
  IF i > Len(data) THEN << >>
  ELSE IF notna(data[i][j]) /\ Str(data[i][j]) = key
       THEN <<i>> \o GroupPositions(data, j, key, i + 1)
       ELSE GroupPositions(data, j, key, i + 1)

\* df.groupby(name): the group keys; pandas drops the rows whose key is null
GroupKeys(df, name) ==
  LET j == ColPos(df, name)
  IN {Str(df.data[i][j]) : i \in {r \in 1..Len(df.data) : notna(df.data[r][j])}}

GroupCells(df, by, key, name) ==
  LET pos == GroupPositions(df.data, ColPos(df, by), key, 1)
      j == ColPos(df, name)
  IN [i \in 1..Len(pos) |-> df.data[pos[i]][j]]

\* The same, were Profit taken row by row before the reduction: a row with a
\* blank amount has no profit and is skipped by the sum
GroupRowProfitFirst(df, key) ==
  LET revs == GroupCells(df, "PU_Country", key, "Net_Revenue")
      costs == GroupCells(df, "PU_Country", key, "Total_Cost")
      rev == round2(sum_skipna(revs))
      cost == round2(sum_skipna(costs))
      profits == [i \in 1..Len(revs) |->
                    IF revs[i].k = "num" /\ costs[i].k = "num"
                    THEN Num(revs[i].n - costs[i].n) ELSE Null]
  IN [Net_Revenue |-> rev, Total_Cost |-> cost,
      Gross_Percent |-> mean_skipna(GroupCells(df, "PU_Country", key, "Gross_Percent")),
      Profit |-> round2(sum_skipna(profits))]

\* Lines 579-585
GroupRow(df, key) ==
  LET rev == round2(sum_skipna(GroupCells(df, "PU_Country", key, "Net_Revenue")))
      cost == round2(sum_skipna(GroupCells(df, "PU_Country", key, "Total_Cost")))
  IN [Net_Revenue |-> rev, Total_Cost |-> cost,
      Gross_Percent |-> mean_skipna(GroupCells(df, "PU_Country", key, "Gross_Percent")),
      Profit |-> rev - cost]

country_financials_of(df) == [key \in GroupKeys(df, "PU_Country") |-> GroupRow(df, key)]

NoGroups == [key \in {} |-> 0]

---------------------------------------------------------------------------
(* The tabs (lines 235-948) *)

NoView ==
  [exception |-> "",
   otp_complete |-> 0, revenue_complete |-> 0,
   total_volume_services |-> 0, total_volume_countries |-> 0,
   total_orders |-> 0, on_time_orders |-> 0, avg_otp |-> [num |-> 0, den |-> 1],
   total_revenue |-> 0, total_cost |-> 0,
   grouped |-> FALSE, country_financials |-> NoGroups,
   dest_totals |-> FALSE]

Has(key) == key \in DOMAIN tms_data.data

\* sum(d.values())
RECURSIVE SumOver(_, _)
SumOver(d, K) ==
  IF K = {} THEN 0
  ELSE LET k == CHOOSE x \in K : TRUE IN d[k] + SumOver(d, K \ {k})

DictTotal(d) == SumOver(d, DOMAIN d)

\* Line 283-285: the read of cost_sales['Net_Revenue'] raises KeyError on a
\* frame without that column
Tab1Raises ==
  /\ Has("cost_sales")
  /\ ~empty(tms_data.data["cost_sales"])
  /\ ColPos(tms_data.data["cost_sales"], "Net_Revenue") = 0

\* Lines 274-290
Tab1View ==
  [NoView EXCEPT
     !.otp_complete =
        IF Has("otp") /\ ~empty(tms_data.data["otp"])
        THEN Len(dropna_any(tms_data.data["otp"]).index) ELSE 0,
     !.revenue_complete =
        IF Has("cost_sales") /\ ~empty(tms_data.data["cost_sales"])
        THEN Len(dropna_subset(tms_data.data["cost_sales"], "Net_Revenue").index) ELSE 0]

\* The same without dropna(): blank statuses are counted as orders
StatusSeriesAll(df) == ColumnCells(df.data, ColPos(df, "Status"))

\* Lines 360-366
StatusSeries(df) ==
  LET j == ColPos(df, "Status")
      pos == KeptPositions(df.data, j, 1)
  IN [i \in 1..Len(pos) |-> df.data[pos[i]][j]]

OnTime(status_series) ==
  Cardinality({i \in 1..Len(status_series) :
                 status_series[i].k = "text" /\ status_series[i].s = "ON TIME"})

\* Line 366: on_time_orders / total_orders * 100, as the fraction num / den
Rate(on_time_orders, total_orders) ==
  IF total_orders > 0 THEN [num |-> on_time_orders * 100, den |-> total_orders]
  ELSE [num |-> 0, den |-> 1]

\* Lines 373-378
ColumnSum(df, name) ==
  IF ColPos(df, name) = 0 THEN 0
  ELSE sum_skipna(ColumnCells(df.data, ColPos(df, name)))

\* Lines 634-658: numeric_cols is bound only inside "if len(lane_df.columns) > 1"
\* and read by the destination totals whenever the table has more than one row
LanesRaise ==
  /\ Has("lanes")
  /\ ~empty(tms_data.data["lanes"])
  /\ Len(tms_data.data["lanes"].index) > 1
  /\ ~(Len(tms_data.data["lanes"].columns) > 1)

\* Lines 351-617
Tab2View ==
  LET fin == Has("cost_sales") /\ ~empty(tms_data.data["cost_sales"])
      cost_df == tms_data.data["cost_sales"]
      otp == Has("otp") /\ ~empty(tms_data.data["otp"])
  IN [view EXCEPT
        !.total_volume_services =
           IF Has("service_volumes") THEN DictTotal(tms_data.data["service_volumes"]) ELSE 0,
        !.total_volume_countries =
           IF Has("country_volumes") THEN DictTotal(tms_data.data["country_volumes"]) ELSE 0,
        !.total_orders = IF otp THEN Len(StatusSeries(tms_data.data["otp"])) ELSE 0,
        !.on_time_orders = IF otp THEN OnTime(StatusSeries(tms_data.data["otp"])) ELSE 0,
        !.avg_otp =
           IF otp THEN Rate(OnTime(StatusSeries(tms_data.data["otp"])),
                            Len(StatusSeries(tms_data.data["otp"])))
           ELSE Rate(0, 0),
        !.total_revenue = IF fin THEN ColumnSum(cost_df, "Net_Revenue") ELSE 0,
        !.total_cost = IF fin THEN ColumnSum(cost_df, "Total_Cost") ELSE 0,
        !.grouped = fin /\ ColPos(cost_df, "PU_Country") # 0,
        !.country_financials =
           IF fin /\ ColPos(cost_df, "PU_Country") # 0
           THEN country_financials_of(cost_df) ELSE NoGroups,
        !.dest_totals = Has("lanes") /\ ~empty(tms_data.data["lanes"])
                        /\ Len(tms_data.data["lanes"].index) > 1]

---------------------------------------------------------------------------
(* The run of the script *)

Init ==
  /\ uploaded_file = NoFile
  /\ tms_data = None
  /\ st_error = NoError
  /\ sidebar = "info"
  /\ view = NoView
  /\ pc = "idle"

\* The user puts a file into the empty uploader; streamlit runs the script
\* again from its first line
CanUpload == pc \in {"idle", "crashed"} /\ ~uploaded_file.some

Upload(file) ==
  /\ CanUpload
  /\ uploaded_file' = file
  /\ tms_data' = None
  /\ st_error' = NoError
  /\ view' = NoView
  /\ pc' = "load"
  /\ UNCHANGED sidebar

\* The user takes the file out of the uploader; the script runs again
RemoveFile ==
  /\ pc \in {"idle", "crashed"}
  /\ uploaded_file.some
  /\ uploaded_file' = NoFile
  /\ tms_data' = None
  /\ st_error' = NoError
  /\ view' = NoView
  /\ pc' = "load"
  /\ UNCHANGED sidebar

\* Lines 223-232
LoadData ==
  /\ pc = "load"
  /\ LET r == load_tms_data(uploaded_file)
     IN /\ tms_data' = r.value
        /\ st_error' = r.err
        /\ sidebar' = IF ~uploaded_file.some THEN "info"
                      ELSE IF Truthy(r.value) THEN "success" ELSE "error"
  /\ pc' = "tab1"
  /\ UNCHANGED <<uploaded_file, view>>

\* Lines 238-344
RenderTab1 ==
  /\ pc = "tab1"
  /\ IF tms_data.some /\ Tab1Raises
     THEN /\ view' = [NoView EXCEPT !.exception = "KeyError"]
          /\ pc' = "crashed"
     ELSE /\ view' = IF tms_data.some THEN Tab1View ELSE NoView
          /\ pc' = "tab2"
  /\ UNCHANGED <<uploaded_file, tms_data, st_error, sidebar>>

\* Lines 347-742
RenderTab2 ==
  /\ pc = "tab2"
  /\ IF tms_data.some /\ LanesRaise
     THEN /\ view' = [Tab2View EXCEPT !.exception = "NameError"]
          /\ pc' = "crashed"
     ELSE /\ view' = IF tms_data.some THEN Tab2View ELSE view
          /\ pc' = "tab3"
  /\ UNCHANGED <<uploaded_file, tms_data, st_error, sidebar>>

\* Lines 745-948: the report reads the figures of tab 2
RenderTab3 ==
  /\ pc = "tab3"
  /\ pc' = "idle"
  /\ UNCHANGED <<uploaded_file, tms_data, st_error, sidebar, view>>

---------------------------------------------------------------------------
(* Workbooks with a "Volume per SVC" sheet *)

Sheet(ncols, rows) == [ncols |-> ncols, rows |-> rows]

\* First cells: a service code, country codes, a padded code, a subtotal
\* label, a blank
FirstCells == {Text("CTX"), Text("NL"), Text(" NL"), Text("Total"), Null}

\* Second cells: blank, positive, negative, stray text, a number typed as text
SecondCells == {Null, Num(3), Num(0 - 1), Text("x"), Text("7")}

\* Third cells: zero, positive
ThirdCells == {Num(0), Num(4)}

VolumeRows == {<<a, b, c>> : a \in FirstCells, b \in SecondCells, c \in ThirdCells}

\* The sheet of the end-to-end scenario
ScenarioRows == << <<Text("CTX"), Num(5), Num(0), Num(0)>>,
                   <<Text("NL"), Num(3), Num(4), Num(0)>> >>

VolumeFile(sheet) == File(TRUE, Entry(VolumeSheet, sheet))

\* Sheets of three columns, sheets of a single column, the scenario's sheet
UploadVolume ==
  /\ CanUpload
  /\ \/ \E m \in 0..MaxVolRows : \E rows \in [1..m -> VolumeRows] :
           Upload(VolumeFile(Sheet(3, rows)))
     \/ \E a \in FirstCells : Upload(VolumeFile(Sheet(1, <<<<a>>>>)))
     \/ Upload(VolumeFile(Sheet(4, ScenarioRows)))

NextVolume == UploadVolume \/ LoadData

SpecVolume == Init /\ [][NextVolume]_vars

---------------------------------------------------------------------------
(* Claims about the volume extraction *)

\* The sets the specification names; the source has no such sets
SERVICE_TYPES == {"CTX"}
COUNTRIES == {"NL", "DE"}

VolumeLoaded == tms_data.some /\ Has("service_volumes") /\ Has("country_volumes")
service_volumes == tms_data.data["service_volumes"]
country_volumes == tms_data.data["country_volumes"]
volume_rows == uploaded_file.sheets[VolumeSheet].rows

\* The keys a single row is stored under in each map
ServiceKeysOf(row) == DOMAIN ServiceStep(EmptyDict, row)
CountryKeysOf(row) == DOMAIN CountryStep(EmptyDict, row)

\* C1: no row of the "Volume per SVC" sheet contributes to both
\* service_volumes and country_volumes.
C1_RowInOneMapOnly ==
  VolumeLoaded =>
    \A i \in 1..Len(volume_rows) :
      ~ /\ ServiceKeysOf(volume_rows[i]) # {}
        /\ ServiceKeysOf(volume_rows[i]) \subseteq DOMAIN service_volumes
        /\ CountryKeysOf(volume_rows[i]) # {}
        /\ CountryKeysOf(volume_rows[i]) \subseteq DOMAIN country_volumes

\* C2: the sheet with the data rows ("CTX", 5, 0, 0) and ("NL", 3, 4, 0) yields
\* service_volumes = {"CTX": 5} and country_volumes = {"NL": 7}.
C2_Scenario ==
  (VolumeLoaded /\ volume_rows = ScenarioRows) =>
    /\ service_volumes = Entry("CTX", 5)
    /\ country_volumes = Entry("NL", 7)

\* C6: service_volumes holds only keys of SERVICE_TYPES and country_volumes
\* only keys of COUNTRIES; rows matching neither set add nothing.
C6_KeysFromFixedSets ==
  VolumeLoaded =>
    /\ DOMAIN service_volumes \subseteq SERVICE_TYPES
    /\ DOMAIN country_volumes \subseteq COUNTRIES

\* A country row, read off the sheet: the first cell is a text of two letters
TwoLetterCodes == {"NL", "DE"}
CountryCoded(row) == row[1].k = "text" /\ row[1].s \in TwoLetterCodes

\* The sum of the cells that read as a number greater than zero: a number, or
\* a text that spells one
SpelledNumber(c) == c.k = "text" /\ c.s = "7"
RECURSIVE PositiveReadings(_)
PositiveReadings(cells) ==
  IF cells = << >> THEN 0
  ELSE (IF Head(cells).k = "num" /\ Head(cells).n > 0 THEN Head(cells).n
        ELSE IF SpelledNumber(Head(cells)) THEN 7 ELSE 0)
       + PositiveReadings(Tail(cells))

RecordingRows(c) ==
  {i \in 1..Len(volume_rows) :
     /\ CountryCoded(volume_rows[i]) /\ volume_rows[i][1].s = c
     /\ PositiveReadings(Tail(volume_rows[i])) > 0}

LastOf(S) == CHOOSE i \in S : \A j \in S : j <= i

---------------------------------------------------------------------------
(* Workbooks with an "OTP POD" sheet *)

OrderCells == {Null, Text("A1"), Text("A2")}
QdtCells == {Null, Text("2024-01-01")}
StatusCells == {Null, Text("LATE"), Text("ON TIME"), Text("on time")}

\* A row of n cells: order id, QDT, POD, time difference, status, QC reason, ...
OtpRow(order, qdt, status, n) ==
  [j \in 1..n |->
     CASE j = 1 -> order
       [] j = 2 -> qdt
       [] j = 3 -> Text("2024-01-02")
       [] j = 4 -> Num(1)
       [] j = 5 -> status
       [] OTHER -> Text("qc")]

OtpRows(n) == {OtpRow(o, q, st, n) : o \in OrderCells, q \in QdtCells, st \in StatusCells}

\* The sheet of the end-to-end scenario
OtpScenarioRows ==
  << <<Text("A1"), Text("2024-01-01"), Text("2024-01-02"), Num(1), Text("LATE")>>,
     <<Text("A2"), Text("2024-01-01"), Text("2024-01-01"), Num(0), Text("ON TIME")>> >>

UploadOtp ==
  /\ CanUpload
  /\ \/ \E n \in 3..MaxOtpCols : \E m \in 0..MaxOtpRows : \E rows \in [1..m -> OtpRows(n)] :
          Upload(File(TRUE, Entry(OtpSheet, Sheet(n, rows))))
     \/ Upload(File(TRUE, Entry(OtpSheet, Sheet(Len(otp_cols), OtpScenarioRows))))

NextOtp == UploadOtp \/ RemoveFile \/ LoadData \/ RenderTab1 \/ RenderTab2 \/ RenderTab3

SpecOtp == Init /\ [][NextOtp]_vars

---------------------------------------------------------------------------
(* Workbooks with a "cost sales" sheet.  Amounts are in thousandths. *)

CostCells == {Null, Num(2000)}
RevenueCells == {Null, Num(1004)}
PercentCells == {Null, Num(250)}
CountryCells == {Null, Text("NL"), Text("DE")}

\* A row of n cells; the columns no claim reads hold 0
CostRow(cost, revenue, percent, country, n) ==
  [j \in 1..n |->
     CASE j = 1 -> Num(1)
       [] j = 10 -> cost
       [] j = 11 -> revenue
       [] j = 14 -> percent
       [] j = 18 -> country
       [] OTHER -> Num(0)]

CostRows(n) ==
  {CostRow(c, r, g, k, n) :
     c \in CostCells, r \in RevenueCells, g \in PercentCells, k \in CountryCells}

\* A sheet without columns has no rows
UploadCost ==
  /\ CanUpload
  /\ \E n \in 0..MaxCostCols : \E m \in 0..MaxCostRows : \E rows \in [1..m -> CostRows(n)] :
       /\ n = 0 => m = 0
       /\ Upload(File(TRUE, Entry(CostSheet, Sheet(n, rows))))

NextCost == UploadCost \/ RemoveFile \/ LoadData \/ RenderTab1 \/ RenderTab2 \/ RenderTab3

SpecCost == Init /\ [][NextCost]_vars

---------------------------------------------------------------------------
(* Workbooks with any subset of the sheets, each in a few shapes *)

Absent == NoEntries

RawChoices == {Absent, Entry(RawSheet, Sheet(2, <<<<Text("A1"), Num(1)>>>>))}

OtpChoices ==
  {Absent} \cup
  {Entry(OtpSheet, Sheet(n, <<OtpRow(Text("A1"), Text("2024-01-01"), Text("LATE"), n)>>)) :
     n \in 4..6}

VolumeChoices == {Absent, Entry(VolumeSheet, Sheet(4, ScenarioRows))}

LaneChoices ==
  {Absent,
   Entry(LaneSheet, Sheet(3, <<<<Text("NL"), Num(1), Num(2)>>, <<Text("DE"), Num(0), Num(3)>>>>)),
   Entry(LaneSheet, Sheet(1, <<<<Text("NL")>>, <<Text("DE")>>>>))}

CostChoices ==
  {Absent} \cup
  {Entry(CostSheet, Sheet(n, <<CostRow(Num(2000), Num(1004), Num(250), Text("NL"), n)>>)) :
     n \in {3, 18, 19}}

\* A sheet the loader does not know
OtherChoices == {Absent, Entry("Sheet1", Sheet(1, <<<<Num(1)>>>>))}

\* A file that is no spreadsheet, or a workbook of any of the choices
UploadAny ==
  /\ CanUpload
  /\ \/ Upload(File(FALSE, NoEntries))
     \/ \E r \in RawChoices, o \in OtpChoices, v \in VolumeChoices,
           l \in LaneChoices, c \in CostChoices, x \in OtherChoices :
           Upload(File(TRUE, r @@ o @@ v @@ l @@ c @@ x))

Next == UploadAny \/ RemoveFile \/ LoadData \/ RenderTab1 \/ RenderTab2 \/ RenderTab3

Spec == Init /\ [][Next]_vars

---------------------------------------------------------------------------
(* Claims about the load as a whole *)

\* load_tms_data has run on the file in the uploader
LoadRan == uploaded_file.some /\ pc # "load"

\* The sheet each key of the mapping is made from
SourceSheet(key) ==
  CASE key = "raw_data" -> RawSheet
    [] key = "otp" -> OtpSheet
    [] key \in {"service_volumes", "country_volumes", "volume_raw"} -> VolumeSheet
    [] key = "lanes" -> LaneSheet
    [] key = "cost_sales" -> CostSheet
    [] OTHER -> ""

\* C4: whatever subset of the expected sheets a parseable workbook holds, the
\* load completes without error and returns a key only if its sheet is
\* present; a workbook with only "OTP POD" yields only otp.
C4_AnySubsetLoads ==
  (LoadRan /\ uploaded_file.parseable) =>
    /\ tms_data.some
    /\ ~st_error.raised
    /\ \A key \in DOMAIN tms_data.data : SourceSheet(key) \in DOMAIN uploaded_file.sheets
    /\ (DOMAIN uploaded_file.sheets) \cap SheetNames = {OtpSheet}
         => DOMAIN tms_data.data = {"otp"}

DatasetNames == {"raw_data", "otp", "service_volumes", "country_volumes", "lanes", "cost_sales"}

\* C5 as claimed: the keys of a returned mapping are among the six dataset
\* names.
C5_KeysAmongSix == tms_data.some => DOMAIN tms_data.data \subseteq DatasetNames

\* C5 amended: the keys of a returned mapping are among the six dataset names
\* and volume_raw, which is returned exactly when the volume maps are.
C5_KeysAmongSixAndVolumeRaw ==
  tms_data.some =>
    /\ DOMAIN tms_data.data \subseteq DatasetNames \cup {"volume_raw"}
    /\ Has("volume_raw") <=> Has("service_volumes")
    /\ Has("volume_raw") <=> Has("country_volumes")

\* C5 witness: a load of a workbook with all five sheets returned seven keys
C5_Witness ==
  /\ LoadRan
  /\ SheetNames \subseteq DOMAIN uploaded_file.sheets
  /\ tms_data.some
  /\ DOMAIN tms_data.data = DatasetNames \cup {"volume_raw"}

---------------------------------------------------------------------------
(* Claims about the OTP table *)

OtpLoaded == LoadRan /\ tms_data.some /\ Has("otp")
otp_rows == uploaded_file.sheets[OtpSheet].rows
otp_df == tms_data.data["otp"]

\* C8: the otp table holds exactly the sheet's rows whose first cell is not
\* null, in the sheet's order, so no row of it has a null order id.
C8_OtpKeepsRowsWithOrderId ==
  OtpLoaded =>
    /\ Len(otp_df.data) = Len(otp_df.index)
    /\ \A k \in 1..Len(otp_df.data) : otp_df.data[k][1].k # "null"
    /\ Range(otp_df.index) = {r - 1 : r \in {i \in 1..Len(otp_rows) : otp_rows[i][1].k # "null"}}
    /\ \A k \in 1..(Len(otp_df.index) - 1) : otp_df.index[k] < otp_df.index[k + 1]
    /\ \A k \in 1..Len(otp_df.index) :
          LET row == otp_rows[otp_df.index[k] + 1]
          IN /\ otp_df.data[k][1] = row[1]
             /\ otp_df.data[k][4] = row[4]
             /\ otp_df.data[k][5] = row[5]

\* C8 witness: of two rows the first has no order id and is dropped, the
\* second has one and a null status and is kept
C8_Witness ==
  /\ OtpLoaded
  /\ Len(otp_rows) = 2
  /\ otp_rows[1][1] = Null
  /\ otp_rows[2][1] = Text("A2") /\ otp_rows[2][5] = Null
  /\ otp_df.index = <<1>>
  /\ otp_df.data[1][1] = Text("A2")

---------------------------------------------------------------------------
(* Claims about the cost/sales table *)

CostUploaded == LoadRan /\ uploaded_file.parseable /\ CostSheet \in DOMAIN uploaded_file.sheets
cost_sheet == uploaded_file.sheets[CostSheet]
cost_sales == tms_data.data["cost_sales"]

\* sum of the Net_Revenue column of country_financials
RECURSIVE GroupRevenue(_, _)
GroupRevenue(groups, K) ==
  IF K = {} THEN 0
  ELSE LET k == CHOOSE x \in K : TRUE
       IN groups[k].Net_Revenue + GroupRevenue(groups, K \ {k})

\* C3: the per-group sums of Net_Revenue add up to the sum of Net_Revenue
\* over all rows of the table, rows whose group key is null included.
C3_GroupRevenueAddsUp ==
  (pc \in {"tab3", "idle"} /\ view.grouped) =>
    GroupRevenue(view.country_financials, DOMAIN view.country_financials) = view.total_revenue

\* C9: a sheet of n < 18 columns loads, and its columns get the first n
\* reference names in order.
C9_ShortSheetGetsFirstNames ==
  (CostUploaded /\ cost_sheet.ncols < 18) =>
    /\ ~st_error.raised
    /\ tms_data.some /\ Has("cost_sales")
    /\ Len(cost_sales.columns) = cost_sheet.ncols
    /\ \A k \in 1..cost_sheet.ncols : cost_sales.columns[k] = expected_cols[k]

\* C9 witness: a sheet of 11 columns with a row, loaded, whose last column is
\* named Net_Revenue
C9_Witness ==
  /\ CostUploaded /\ cost_sheet.ncols = 11 /\ Len(cost_sheet.rows) > 0
  /\ tms_data.some /\ Has("cost_sales")
  /\ cost_sales.columns[11] = "Net_Revenue"

\* C10: a sheet of more than 18 columns loads, cut to its first 18 columns,
\* which get the 18 reference names.
C10_WideSheetTruncated ==
  (CostUploaded /\ cost_sheet.ncols > 18) =>
    /\ tms_data.some /\ Has("cost_sales")
    /\ cost_sales.columns = expected_cols

---------------------------------------------------------------------------
(* Claims about failures of the load *)

OtpUploaded == LoadRan /\ uploaded_file.parseable /\ OtpSheet \in DOMAIN uploaded_file.sheets
otp_sheet == uploaded_file.sheets[OtpSheet]

\* C11: an "OTP POD" sheet of fewer than 5 columns does not fail the load:
\* load_tms_data returns the datasets of the workbook.
C11_ShortOtpSheetLoads ==
  (OtpUploaded /\ otp_sheet.ncols < Len(otp_cols)) =>
    /\ ~st_error.raised
    /\ tms_data.some /\ Has("otp")

\* A parseable workbook whose processing raised nothing
LoadedClean == LoadRan /\ uploaded_file.parseable /\ ~st_error.raised

\* C12: a workbook that parses and holds none or only some of the expected
\* sheets is shown as a successful load, without an error indication.
C12_MissingSheetsShownAsSuccess ==
  (LoadedClean /\ ~(SheetNames \subseteq DOMAIN uploaded_file.sheets)) =>
    sidebar = "success"

\* C13: when the file cannot be opened or a step of the processing raises,
\* load_tms_data returns None and no partial mapping, the sidebar shows the
\* error, and the tabs render their no-data branch without raising.
C13_FailedLoadIsAtomic ==
  (LoadRan /\ st_error.raised) =>
    /\ tms_data = None
    /\ sidebar = "error"
    /\ pc # "crashed"
    /\ view = NoView

\* C13 witness: a workbook whose raw sheet was read before the "cost sales"
\* sheet of 19 columns raised, rendered to the end of the script
C13_Witness ==
  /\ LoadRan /\ pc = "idle"
  /\ uploaded_file.parseable
  /\ RawSheet \in DOMAIN uploaded_file.sheets
  /\ CostSheet \in DOMAIN uploaded_file.sheets
  /\ uploaded_file.sheets[CostSheet].ncols = 19
  /\ st_error.raised /\ st_error.at = "cost_sales"
  /\ tms_data = None /\ sidebar = "error"

---------------------------------------------------------------------------
(* Claims about rows of the volume sheet that fail numeric coercion *)

\* float() of the cell raises: a text that spells no number
FailsCoercion(c) == c.k = "text" /\ ~float_str(c.s).ok

\* The cells after the first of row i that fail coercion
FailingCells(row) == {j \in 2..Len(row) : FailsCoercion(row[j])}

\* The sheet's rows without row i
RowsWithout(rows, i) == SubSeq(rows, 1, i - 1) \o SubSeq(rows, i + 1, Len(rows))

\* The sheet's rows with the failing cells of row i left blank
RowsBlanked(rows, i) ==
  [rows EXCEPT ![i] = [j \in 1..Len(rows[i]) |->
                         IF j \in FailingCells(rows[i]) THEN Null ELSE rows[i][j]]]

VolumeUploaded ==
  LoadRan /\ uploaded_file.parseable /\ VolumeSheet \in DOMAIN uploaded_file.sheets

\* C14 as claimed: a row with a cell that fails coercion is skipped: both maps
\* are those of the sheet without the row, and the load is not aborted.
C14_FailingRowSkipped ==
  VolumeUploaded =>
    /\ VolumeLoaded /\ ~st_error.raised
    /\ \A i \in 1..Len(volume_rows) :
         FailingCells(volume_rows[i]) # {} =>
           /\ service_volumes = ServiceLoop(EmptyDict, RowsWithout(volume_rows, i))
           /\ country_volumes = CountryLoop(EmptyDict, RowsWithout(volume_rows, i))

\* C14 amended: the load is not aborted; a row whose second cell fails
\* coercion adds nothing to service_volumes and leaves the other rows' entries
\* alone; in country_volumes a failing cell counts as a blank one, so the row
\* is still recorded with the sum of its other positive cells.
C14_FailingCellSkipped ==
  VolumeUploaded =>
    /\ VolumeLoaded /\ ~st_error.raised
    /\ \A i \in 1..Len(volume_rows) :
         /\ (Len(volume_rows[i]) >= 2 /\ FailsCoercion(volume_rows[i][2])) =>
              service_volumes = ServiceLoop(EmptyDict, RowsWithout(volume_rows, i))
         /\ country_volumes = CountryLoop(EmptyDict, RowsBlanked(volume_rows, i))
         /\ (FailingCells(volume_rows[i]) # {} /\ CountryCoded(volume_rows[i])
               /\ PositiveReadings(Tail(volume_rows[i])) = 0) =>
              country_volumes = CountryLoop(EmptyDict, RowsWithout(volume_rows, i))

\* C14 witness: a country row with a stray text and a positive cell, beside a
\* service row; the stray text keeps the row out of service_volumes only
C14_Witness ==
  /\ VolumeUploaded /\ VolumeLoaded
  /\ Len(volume_rows) = 2
  /\ volume_rows[1] = <<Text("NL"), Text("x"), Num(4)>>
  /\ volume_rows[2] = <<Text("CTX"), Num(3), Num(0)>>
  /\ service_volumes = Entry("CTX", 3)
  /\ country_volumes = Entry("NL", 4)

---------------------------------------------------------------------------
(* Workbooks whose "OTP POD" sheet varies in its QDT column *)

\* Blank, serials (60 and 61 lie on either side of the end of February 1900),
\* a calendar string, a stray text, a cell Excel holds as a date
DateCells ==
  {Null, Num(0), Num(1), Num(60), Num(61), Text("2024-01-01"), Text("x"),
   Date(DaysFromCivil(2024, 1, 2))}

DateRows == {OtpRow(Text("A1"), c, Text("LATE"), Len(otp_cols)) : c \in DateCells}

UploadDates ==
  /\ CanUpload
  /\ \E m \in 0..MaxDateRows : \E rows \in [1..m -> DateRows] :
       Upload(File(TRUE, Entry(OtpSheet, Sheet(Len(otp_cols), rows))))

NextDates == UploadDates \/ RemoveFile \/ LoadData \/ RenderTab1 \/ RenderTab2 \/ RenderTab3

SpecDates == Init /\ [][NextDates]_vars

---------------------------------------------------------------------------
(* Claims about safe_date_conversion *)

\* The QDT column as uploaded and as load_tms_data returned it
date_series == ColumnCells(otp_rows, ColPos([columns |-> otp_cols], "QDT"))
converted == ColumnCells(otp_df.data, ColPos(otp_df, "QDT"))

\* A column pandas reads as int64 or float64: numbers and blanks, not empty
NumericColumn(cells) ==
  cells # << >> /\ \A i \in 1..Len(cells) : cells[i].k \in {"num", "null"}

\* The calendar
LeapYear(y) == y % 4 = 0 /\ (y % 100 # 0 \/ y % 400 = 0)
DaysInMonth(y, m) ==
  IF m = 2 THEN (IF LeapYear(y) THEN 29 ELSE 28)
  ELSE IF m \in {4, 6, 9, 11} THEN 30 ELSE 31
FirstOfNextMonth(t) ==
  IF t.m < 12 THEN [y |-> t.y, m |-> t.m + 1, d |-> 1] ELSE [y |-> t.y + 1, m |-> 1, d |-> 1]

\* The date n days after t, month by month
RECURSIVE PlusDays(_, _)
PlusDays(t, n) ==
  IF t.d + n <= DaysInMonth(t.y, t.m) THEN [t EXCEPT !.d = t.d + n]
  ELSE PlusDays(FirstOfNextMonth(t), n - (DaysInMonth(t.y, t.m) - t.d + 1))

Origin == [y |-> 1899, m |-> 12, d |-> 30]

\* C15: in a numeric column serial n becomes the calendar date n days after
\* 1899-12-30 (0 becomes 1899-12-30, 1 becomes 1899-12-31); a blank stays null.
C15_SerialCountsFromOrigin ==
  (OtpLoaded /\ NumericColumn(date_series)) =>
    /\ Len(converted) = Len(date_series)
    /\ \A i \in 1..Len(date_series) :
         IF date_series[i].k = "num"
         THEN /\ converted[i].k = "date"
              /\ CivilFromDays(converted[i].n) = PlusDays(Origin, date_series[i].n)
              /\ date_series[i].n = 0 => CivilFromDays(converted[i].n) = Origin
              /\ date_series[i].n = 1 =>
                   CivilFromDays(converted[i].n) = [y |-> 1899, m |-> 12, d |-> 31]
         ELSE converted[i] = Null

\* C15 witness: the serials 1 and 61 were converted to 1899-12-31 and
\* 1900-03-01
C15_Witness ==
  /\ OtpLoaded
  /\ date_series = <<Num(1), Num(61)>>
  /\ CivilFromDays(converted[1].n) = [y |-> 1899, m |-> 12, d |-> 31]
  /\ CivilFromDays(converted[2].n) = [y |-> 1900, m |-> 3, d |-> 1]

\* C16: converting the converted column again returns it unchanged.
C16_ConversionIdempotent ==
  OtpLoaded =>
    safe_date_conversion(converted, otp_df.dtypes[ColPos(otp_df, "QDT")]) = converted

\* C16 witness: a converted column with a date that came from a serial, and a
\* null entry
C16_Witness ==
  /\ OtpLoaded
  /\ date_series = <<Num(1), Null>>
  /\ converted = <<Date(1 - UnixEpochDay), Null>>
  /\ otp_df.dtypes[2] = "datetime64"

\* C17: the conversion returns a column of the same length without raising;
\* every entry of it is a date or null; a value that cannot be converted is
\* null while the calendar strings and dates beside it are converted; the
\* column comes back unchanged only if it held nothing but dates and nulls.
C17_ConversionTotal ==
  (OtpUploaded /\ otp_sheet.ncols >= Len(otp_cols)) =>
    /\ OtpLoaded /\ ~st_error.raised
    /\ Len(converted) = Len(date_series)
    /\ \A i \in 1..Len(date_series) :
         /\ converted[i].k \in {"date", "null"}
         /\ (date_series[i].k = "text" /\ date_series[i].s \notin DateStrings) =>
              converted[i] = Null
         /\ (date_series[i].k = "text" /\ date_series[i].s = "2024-01-01") =>
              (converted[i].k = "date"
                 /\ CivilFromDays(converted[i].n) = [y |-> 2024, m |-> 1, d |-> 1])
         /\ date_series[i].k = "date" => converted[i] = date_series[i]
         /\ date_series[i] = Null => converted[i] = Null
    /\ converted = date_series =>
         \A i \in 1..Len(date_series) : date_series[i].k \in {"date", "null"}

\* C17 witness: a stray text beside a calendar string: the one became null,
\* the other 2024-01-01
C17_Witness ==
  /\ OtpLoaded
  /\ date_series = <<Text("x"), Text("2024-01-01")>>
  /\ converted = <<Null, Date(DaysFromCivil(2024, 1, 1))>>

---------------------------------------------------------------------------
(* Claims about the OTP figures of tab 2 *)

\* Tab 2 has rendered the figures of the loaded otp table
OtpRendered == OtpLoaded /\ pc \in {"tab3", "idle"} /\ view.exception = ""

\* The sheet's rows with an order id and a status, and those of them on time
CountedOrders ==
  {i \in 1..Len(otp_rows) : otp_rows[i][1].k # "null" /\ otp_rows[i][5].k # "null"}
OnTimeOrders == {i \in CountedOrders : otp_rows[i][5] = Text("ON TIME")}

\* C18: total_orders counts the rows with an order id and a status,
\* on_time_orders those of them whose status is exactly 'ON TIME', and the OTP
\* rate is 100 * on_time_orders / total_orders (0 when total_orders is 0); the
\* rows (A1, ..., LATE) and (A2, ..., ON TIME) give 50% and 2 orders.
C18_OtpFigures ==
  OtpRendered =>
    /\ view.total_orders = Cardinality(CountedOrders)
    /\ view.on_time_orders = Cardinality(OnTimeOrders)
    /\ view.avg_otp.den > 0
    /\ IF Cardinality(CountedOrders) = 0 THEN view.avg_otp.num = 0
       ELSE view.avg_otp.num * Cardinality(CountedOrders)
              = 100 * Cardinality(OnTimeOrders) * view.avg_otp.den
    /\ otp_rows = OtpScenarioRows =>
         (view.total_orders = 2 /\ view.avg_otp.num = 50 * view.avg_otp.den)

\* C18 witness: the scenario's sheet rendered with 2 orders, 1 of them on time
C18_Witness ==
  /\ OtpRendered
  /\ otp_rows = OtpScenarioRows
  /\ view.total_orders = 2 /\ view.on_time_orders = 1
  /\ view.avg_otp = [num |-> 100, den |-> 2]

---------------------------------------------------------------------------
(* Workbooks with a "cost sales" sheet of all 18 columns.  Amounts are in
   thousandths; Gross_Percent is the row's (revenue - cost) / revenue. *)

\* Revenue, cost and margin of a row: whole amounts, an amount below the
\* cent, blanks
FinanceCells ==
  {<<Num(4000), Num(2000), Num(500)>>,
   <<Num(2000), Num(2000), Num(0)>>,
   <<Num(1004), Num(2000), Num(0 - 992)>>,
   <<Null, Num(2000), Null>>,
   <<Num(4000), Null, Num(500)>>}

FinanceRows ==
  {CostRow(f[2], f[1], f[3], k, Len(expected_cols)) : f \in FinanceCells, k \in CountryCells}

UploadFinance ==
  /\ CanUpload
  /\ \E m \in 0..MaxCostRows : \E rows \in [1..m -> FinanceRows] :
       Upload(File(TRUE, Entry(CostSheet, Sheet(Len(expected_cols), rows))))

NextFinance ==
  UploadFinance \/ RemoveFile \/ LoadData \/ RenderTab1 \/ RenderTab2 \/ RenderTab3

SpecFinance == Init /\ [][NextFinance]_vars

---------------------------------------------------------------------------
(* Claims about the figures per country *)

\* Tab 2 has grouped the loaded cost/sales table
FinanceRendered ==
  /\ CostUploaded /\ pc \in {"tab3", "idle"} /\ view.grouped
  /\ cost_sheet.ncols = Len(expected_cols)

\* The sheet's columns by position in the reference list
RevenueCol == ColPos([columns |-> expected_cols], "Net_Revenue")
CostCol == ColPos([columns |-> expected_cols], "Total_Cost")
CountryCol == ColPos([columns |-> expected_cols], "PU_Country")

\* The rows of the sheet of one country, and whether none of their amounts is
\* blank
RowsOf(key) ==
  {i \in 1..Len(cost_sheet.rows) : cost_sheet.rows[i][CountryCol] = Text(key)}
Complete(key) ==
  \A i \in RowsOf(key) :
    cost_sheet.rows[i][RevenueCol].k = "num" /\ cost_sheet.rows[i][CostCol].k = "num"

\* The sum of column j over the rows S of the sheet, blanks counted as 0
RECURSIVE SheetSum(_, _)
SheetSum(S, j) ==
  IF S = {} THEN 0
  ELSE LET i == CHOOSE x \in S : TRUE
       IN (IF cost_sheet.rows[i][j].k = "num" THEN cost_sheet.rows[i][j].n ELSE 0)
          + SheetSum(S \ {i}, j)

\* The sum over the rows S of revenue minus cost
RECURSIVE RowProfits(_)
RowProfits(S) ==
  IF S = {} THEN 0
  ELSE LET i == CHOOSE x \in S : TRUE
       IN cost_sheet.rows[i][RevenueCol].n - cost_sheet.rows[i][CostCol].n
          + RowProfits(S \ {i})

Abs(x) == IF x < 0 THEN 0 - x ELSE x

\* C19: the margin of a group whose rows are complete is its summed revenue
\* minus its summed cost, divided by its summed revenue (to the rounding of
\* two decimals) when that revenue is greater than zero, and undefined
\* otherwise.
C19_MarginAfterReduction ==
  FinanceRendered =>
    \A key \in DOMAIN view.country_financials :
      LET g == view.country_financials[key]
          rev == SheetSum(RowsOf(key), RevenueCol)
          cost == SheetSum(RowsOf(key), CostCol)
      IN Complete(key) =>
           IF rev > 0
           THEN /\ ~g.Gross_Percent.nan
                /\ 2 * Abs(g.Gross_Percent.v * rev - 1000 * (rev - cost)) <= Cent * rev
           ELSE g.Gross_Percent.nan

\* C20 as claimed: Profit is the group's summed revenue minus its summed
\* cost, which is the sum of revenue minus cost over the group's rows when no
\* value is blank.
C20_ProfitOfSums ==
  FinanceRendered =>
    \A key \in DOMAIN view.country_financials :
      LET g == view.country_financials[key]
          rev == SheetSum(RowsOf(key), RevenueCol)
          cost == SheetSum(RowsOf(key), CostCol)
      IN /\ g.Profit = rev - cost
         /\ Complete(key) => g.Profit = RowProfits(RowsOf(key))

WholeCents(key) ==
  \A i \in RowsOf(key) :
    /\ cost_sheet.rows[i][RevenueCol].n % Cent = 0
    /\ cost_sheet.rows[i][CostCol].n % Cent = 0

\* C20 amended: Profit is the group's Net_Revenue minus its Total_Cost, each
\* the sum over the group's rows rounded to two decimals (blanks skipped);
\* when no value is blank it is the sum of revenue minus cost over the rows
\* to within a cent, and exactly that sum when the amounts are whole cents.
C20_ProfitOfRoundedSums ==
  FinanceRendered =>
    \A key \in DOMAIN view.country_financials :
      LET g == view.country_financials[key]
          rev == SheetSum(RowsOf(key), RevenueCol)
          cost == SheetSum(RowsOf(key), CostCol)
      IN /\ g.Profit = g.Net_Revenue - g.Total_Cost
         /\ g.Net_Revenue % Cent = 0 /\ 2 * Abs(g.Net_Revenue - rev) <= Cent
         /\ g.Total_Cost % Cent = 0 /\ 2 * Abs(g.Total_Cost - cost) <= Cent
         /\ Complete(key) => Abs(g.Profit - RowProfits(RowsOf(key))) <= Cent
         /\ (Complete(key) /\ WholeCents(key)) => g.Profit = RowProfits(RowsOf(key))

\* C20 witness: a group of two complete rows in whole cents beside a group
\* with a blank cost
C20_Witness ==
  /\ FinanceRendered
  /\ Cardinality(RowsOf("NL")) = 2 /\ Complete("NL") /\ WholeCents("NL")
  /\ SheetSum(RowsOf("NL"), RevenueCol) = 6000
  /\ view.country_financials["NL"].Profit = 2000

---------------------------------------------------------------------------
(* Claims about the grouping *)

PercentCol == ColPos([columns |-> expected_cols], "Gross_Percent")

\* The pickup countries that occur in the sheet
CountriesInSheet ==
  {cost_sheet.rows[i][CountryCol].s :
     i \in {r \in 1..Len(cost_sheet.rows) : cost_sheet.rows[r][CountryCol].k = "text"}}

\* The rows of S whose cell in column j holds a number
Valued(S, j) == {i \in S : cost_sheet.rows[i][j].k = "num"}

\* C21: the grouping has one row per pickup country that occurs in the table;
\* each sum and the mean of a group are taken over the group's rows that hold
\* a value (to the rounding of two decimals): a null does not count as a zero
\* in the mean, and it does not make a sum or a mean null.
C21_OneRowPerCountryNullsIgnored ==
  FinanceRendered =>
    /\ DOMAIN view.country_financials = CountriesInSheet
    /\ \A key \in DOMAIN view.country_financials :
         LET g == view.country_financials[key]
             valued == Valued(RowsOf(key), PercentCol)
         IN /\ 2 * Abs(g.Net_Revenue - SheetSum(Valued(RowsOf(key), RevenueCol), RevenueCol))
                 <= Cent
            /\ 2 * Abs(g.Total_Cost - SheetSum(Valued(RowsOf(key), CostCol), CostCol)) <= Cent
            /\ g.Gross_Percent.nan <=> valued = {}
            /\ valued # {} =>
                 2 * Abs(g.Gross_Percent.v * Cardinality(valued) - SheetSum(valued, PercentCol))
                   <= Cent * Cardinality(valued)

\* C21 witness: NL has a row with a margin of 0.5 and a row whose revenue and
\* margin are blank: one row for NL, its mean is 0.5 and its revenue 4
C21_Witness ==
  /\ FinanceRendered
  /\ DOMAIN view.country_financials = {"NL"}
  /\ Cardinality(RowsOf("NL")) = 2
  /\ Cardinality(Valued(RowsOf("NL"), PercentCol)) = 1
  /\ Cardinality(Valued(RowsOf("NL"), RevenueCol)) = 1
  /\ view.country_financials["NL"].Gross_Percent = [nan |-> FALSE, v |-> 500]
  /\ view.country_financials["NL"].Net_Revenue = 4000

---------------------------------------------------------------------------
(* Claims about the columns of the OTP table *)

\* The sheet cut to its first five cells per row
FirstFive(sheet) ==
  Sheet(Len(otp_cols), [i \in 1..Len(sheet.rows) |-> SubSeq(sheet.rows[i], 1, Len(otp_cols))])

\* C22: of an "OTP POD" sheet of 5 or more columns the otp table holds the
\* first 5 columns in their order under the names TMS_Order, QDT,
\* POD_DateTime, Time_Diff, Status; the columns after them are dropped, do
\* not change the table and do not fail the load.
C22_OtpFirstFiveColumns ==
  (OtpUploaded /\ otp_sheet.ncols >= 5) =>
    /\ ~st_error.raised
    /\ OtpLoaded
    /\ otp_df.columns = <<"TMS_Order", "QDT", "POD_DateTime", "Time_Diff", "Status">>
    /\ Len(otp_df.dtypes) = 5
    /\ \A k \in 1..Len(otp_df.data) :
         LET row == otp_rows[otp_df.index[k] + 1]
         IN /\ Len(otp_df.data[k]) = 5
            /\ otp_df.data[k][1] = row[1]
            /\ otp_df.data[k][2] \in {safe_date_conversion(<<row[2]>>, d)[1] :
                                        d \in {"object", "float64", "datetime64"}}
            /\ otp_df.data[k][3] \in {safe_date_conversion(<<row[3]>>, d)[1] :
                                        d \in {"object", "float64", "datetime64"}}
            /\ otp_df.data[k][4] = row[4]
            /\ otp_df.data[k][5] = row[5]
    /\ otp_df = ProcessOtp(FirstFive(otp_sheet)).df

\* C22 witness: a sheet of 6 columns with a row was loaded into a table of 5
C22_Witness ==
  /\ OtpLoaded
  /\ otp_sheet.ncols = 6
  /\ Len(otp_rows) = 1 /\ Len(otp_rows[1]) = 6 /\ otp_rows[1][6] = Text("qc")
  /\ Len(otp_df.data) = 1 /\ Len(otp_df.data[1]) = 5
  /\ Len(otp_df.columns) = 5

---------------------------------------------------------------------------
(* Claims about the values of the volume maps *)

\* C23: every value of service_volumes and of country_volumes is greater
\* than zero, so the total of a map that is not empty, by which the volume
\* tables divide for the percentages, is greater than zero.
C23_VolumesPositive ==
  VolumeLoaded =>
    /\ \A k \in DOMAIN service_volumes : service_volumes[k] > 0
    /\ \A k \in DOMAIN country_volumes : country_volumes[k] > 0
    /\ DOMAIN service_volumes # {} => DictTotal(service_volumes) > 0
    /\ DOMAIN country_volumes # {} => DictTotal(country_volumes) > 0

\* C23 witness: a service row with a negative volume is left out beside a row
\* that fills both maps
C23_Witness ==
  /\ VolumeLoaded
  /\ volume_rows = << <<Text("CTX"), Num(0 - 1), Num(0)>>, <<Text("NL"), Num(3), Num(4)>> >>
  /\ service_volumes = Entry("NL", 3)
  /\ country_volumes = Entry("NL", 7)
  /\ DictTotal(country_volumes) = 7

\* The rows whose second cell the first loop records under key s
ServiceRows(s) ==
  {i \in 1..Len(volume_rows) : ServiceKeysOf(volume_rows[i]) = {s}}

RECURSIVE SumSecondCells(_)
SumSecondCells(S) ==
  IF S = {} THEN 0
  ELSE LET i == CHOOSE x \in S : TRUE
       IN (IF volume_rows[i][2].k = "num" THEN volume_rows[i][2].n
           ELSE PositiveReadings(<<volume_rows[i][2]>>))
          + SumSecondCells(S \ {i})

RECURSIVE SumReadings(_)
SumReadings(S) ==
  IF S = {} THEN 0
  ELSE LET i == CHOOSE x \in S : TRUE
       IN PositiveReadings(Tail(volume_rows[i])) + SumReadings(S \ {i})

\* C24: a key that is the first cell of several qualifying rows is recorded
\* with the sum over all of those rows, in service_volumes and in
\* country_volumes.
C24_KeyTotalsSumRows ==
  VolumeLoaded =>
    /\ \A s \in DOMAIN service_volumes : service_volumes[s] = SumSecondCells(ServiceRows(s))
    /\ \A c \in DOMAIN country_volumes : country_volumes[c] = SumReadings(RecordingRows(c))

---------------------------------------------------------------------------
(* Claims about reads of names and columns in the tabs *)

LanesLoaded == LoadRan /\ tms_data.some /\ Has("lanes")
lanes == tms_data.data["lanes"]

\* C25: no lanes table of more than one row, a table of a single column
\* included, reaches the destination totals with numeric_cols unbound.
C25_NumericColsBound ==
  (LanesLoaded /\ Len(lanes.index) > 1) => view.exception # "NameError"

\* C26: whatever number of columns from 1 to 18 the cost_sales table has, the
\* tabs read no column of it that it lacks.
C26_NoMissingColumnRead ==
  (CostUploaded /\ tms_data.some /\ Has("cost_sales")
     /\ Len(cost_sales.columns) \in 1..Len(expected_cols)) =>
    view.exception # "KeyError"

=============================================================================
